---- MODULE Spec2Model ----
(***************************************************************************)
(* Table (src/src/Table.js): the row <-> params mapper, the write-request  *)
(* builders, the batch translator, getRange / select pagination and the    *)
(* lazy schema sync, over a backend client whose calls settle              *)
(* asynchronously.                                                         *)
(*                                                                         *)
(* JavaScript values are tagged records: [undef], [null], [bool], [num],   *)
(* [nan], [str] (a sequence of one-character strings), [long] (a           *)
(* Store.Long), [sent] (Store.INF_MIN / Store.INF_MAX), [obj] (an object:  *)
(* its own enumerable properties in insertion order) and [arr].            *)
(***************************************************************************)
EXTENDS Integers, Sequences, FiniteSets, TLC

VARIABLES
    primaryKeys,   \* this.primaryKeys: sequence of [name, type]
    isSynced,      \* this.isSynced
    pc,            \* the caller: "idle", "wait" (a backend call is outstanding),
                   \* "sync" (sync() calls in progress) or "done"
    op,            \* the operation called and its arguments
    calls,         \* the backend calls the operation issued, in order
    served,        \* the responses the backend gave to them, in order
    promise,       \* the promise the operation returned
    failed,        \* the errors the backend failed a call of the operation with
    startRow,      \* getRange: the caller's startRow object
    rowsAcc,       \* getRange: options.__rows
    table,         \* the number of rows the backend holds for the scans
    syncs,         \* the sync() calls made, each with its describeTable call
    mIn,           \* mapper harness: the row and the fallback under translation
    mOut           \* mapper harness: what the mapper functions returned

(***************************************************************************)
(* Bounds of the model.                                                    *)
(***************************************************************************)
MaxRowLen == 3          \* properties of a row given to the mapper functions
MaxBatchRows == 2       \* rows given to one batch operation
MaxTableRows == 6       \* rows the backend holds for a scan
MaxSyncCalls == 2       \* sync() calls in progress together
MaxPage == 3            \* the page asked of select
MaxLimit == 2           \* the page size asked of select

(***************************************************************************)
(* JavaScript values.                                                      *)
(***************************************************************************)
Undefined == [undef |-> TRUE]
Null == [null |-> TRUE]
NaN == [nan |-> TRUE]
Num(n) == [num |-> n]
Str(cs) == [str |-> cs]
LongOf(n) == [long |-> n]
Obj(entries) == [obj |-> entries]
Arr(items) == [arr |-> items]
Prop(k, v) == [name |-> k, value |-> v]
EmptyObject == Obj(<<>>)
EmptyString == Str(<<>>)

IsUndefined(v) == "undef" \in DOMAIN v
IsObj(v) == "obj" \in DOMAIN v

\* Store.INF_MIN, Store.INF_MAX: the backend's open-range markers
INF_MIN == [sent |-> "INF_MIN"]
INF_MAX == [sent |-> "INF_MAX"]

\* ToBoolean: what `!row` and `x || y` test
Truthy(v) ==
    CASE "undef" \in DOMAIN v -> FALSE
      [] "null" \in DOMAIN v -> FALSE
      [] "nan" \in DOMAIN v -> FALSE
      [] "bool" \in DOMAIN v -> v.bool
      [] "num" \in DOMAIN v -> v.num # 0
      [] "str" \in DOMAIN v -> v.str # <<>>
      [] OTHER -> TRUE

\* Object.keys(o), in property order
RECURSIVE KeysFrom(_, _)
KeysFrom(entries, i) ==
    IF i > Len(entries) THEN <<>>
    ELSE <<entries[i].name>> \o KeysFrom(entries, i + 1)
Keys(o) == KeysFrom(o.obj, 1)
KeySet(o) == {o.obj[i].name : i \in 1..Len(o.obj)}

\* o.hasOwnProperty(k)
HasOwn(o, k) == \E i \in 1..Len(o.obj) : o.obj[i].name = k

\* o[k]
Get(o, k) ==
    IF HasOwn(o, k)
    THEN o.obj[CHOOSE i \in 1..Len(o.obj) : o.obj[i].name = k].value
    ELSE Undefined

\* o[k] = v: an existing property keeps its place, a new one is appended
Put(o, k, v) ==
    IF HasOwn(o, k)
    THEN Obj([i \in 1..Len(o.obj) |->
                 IF o.obj[i].name = k THEN Prop(k, v) ELSE o.obj[i]])
    ELSE Obj(Append(o.obj, Prop(k, v)))

\* Object.assign(target, source)
RECURSIVE AssignFrom(_, _, _)
AssignFrom(target, source, i) ==
    IF i > Len(source.obj) THEN target
    ELSE AssignFrom(Put(target, source.obj[i].name, source.obj[i].value),
                    source, i + 1)
ObjectAssign(target, source) == AssignFrom(target, source, 1)

(***************************************************************************)
(* parseInt and Store.Long.fromNumber, as line 427 uses them.              *)
(***************************************************************************)
Digits == {"0", "1", "2", "3", "4", "5", "6", "7", "8", "9"}
DigitVal(c) ==
    CASE c = "0" -> 0 [] c = "1" -> 1 [] c = "2" -> 2 [] c = "3" -> 3
      [] c = "4" -> 4 [] c = "5" -> 5 [] c = "6" -> 6 [] c = "7" -> 7
      [] c = "8" -> 8 [] c = "9" -> 9

\* the longest run of digits from position i on: <<value, digits read>>
RECURSIVE ReadDigits(_, _, _, _)
ReadDigits(cs, i, acc, n) ==
    IF i > Len(cs) \/ cs[i] \notin Digits THEN <<acc, n>>
    ELSE ReadDigits(cs, i + 1, 10 * acc + DigitVal(cs[i]), n + 1)

RECURSIVE SkipSpace(_, _)
SkipSpace(cs, i) ==
    IF i <= Len(cs) /\ cs[i] = " " THEN SkipSpace(cs, i + 1) ELSE i

\* parseInt of a string: leading blanks, an optional sign, then digits
ParseIntStr(cs) ==
    LET i == SkipSpace(cs, 1)
        signed == i <= Len(cs) /\ cs[i] \in {"-", "+"}
        j == IF signed THEN i + 1 ELSE i
        r == ReadDigits(cs, j, 0, 0)
    IN  IF r[2] = 0 THEN NaN
        ELSE IF signed /\ cs[i] = "-" THEN Num(0 - r[1]) ELSE Num(r[1])

\* parseInt(value): the argument is converted to a string first
parseInt(v) ==
    CASE "num" \in DOMAIN v -> Num(v.num)
      [] "long" \in DOMAIN v -> Num(v.long)
      [] "str" \in DOMAIN v -> ParseIntStr(v.str)
      [] OTHER -> NaN

\* Store.Long.fromNumber(x): NaN becomes zero
fromNumber(x) == IF "nan" \in DOMAIN x THEN LongOf(0) ELSE LongOf(x.num)

(***************************************************************************)
(* Row -> params.                                                          *)
(***************************************************************************)
\* the forEach of __parseRowToPrimaryKey, from descriptor i on
RECURSIVE PrimaryKeyFrom(_, _, _, _)
PrimaryKeyFrom(i, obj, defaultValue, arr) ==
    IF i > Len(primaryKeys) THEN arr
    ELSE LET item == primaryKeys[i]
             key == item.name
             value == Get(obj, key)
         IN  IF HasOwn(obj, key)
             THEN PrimaryKeyFrom(i + 1, obj, defaultValue,
                      Append(arr, Obj(<<Prop(key,
                          IF item.type = "LONG"
                          THEN fromNumber(parseInt(value))
                          ELSE value)>>)))
             ELSE IF ~IsUndefined(defaultValue)
             THEN PrimaryKeyFrom(i + 1, obj, defaultValue,
                      Append(arr, Obj(<<Prop(key, defaultValue)>>)))
             ELSE PrimaryKeyFrom(i + 1, obj, defaultValue, arr)

\* mutant: the fallback is tested for truthiness, not for being undefined
RECURSIVE PrimaryKeyFromTruthy(_, _, _, _)
PrimaryKeyFromTruthy(i, obj, defaultValue, arr) ==
    IF i > Len(primaryKeys) THEN arr
    ELSE LET item == primaryKeys[i]
             key == item.name
             value == Get(obj, key)
         IN  IF HasOwn(obj, key)
             THEN PrimaryKeyFromTruthy(i + 1, obj, defaultValue,
                      Append(arr, Obj(<<Prop(key,
                          IF item.type = "LONG"
                          THEN fromNumber(parseInt(value))
                          ELSE value)>>)))
             ELSE IF Truthy(defaultValue)
             THEN PrimaryKeyFromTruthy(i + 1, obj, defaultValue,
                      Append(arr, Obj(<<Prop(key, defaultValue)>>)))
             ELSE PrimaryKeyFromTruthy(i + 1, obj, defaultValue, arr)
parseRowToPrimaryKeyTruthy(obj, defaultValue) ==
    PrimaryKeyFromTruthy(1, IF Truthy(obj) THEN obj ELSE EmptyObject,
                         defaultValue, <<>>)

\* __parseRowToPrimaryKey(obj, defaultValue)
parseRowToPrimaryKey(obj, defaultValue) ==
    PrimaryKeyFrom(1, IF Truthy(obj) THEN obj ELSE EmptyObject,
                   defaultValue, <<>>)

\* this.primaryKeys.map((item) => item.name)
ignoreKeys == {primaryKeys[i].name : i \in 1..Len(primaryKeys)}

\* the for-in of __parseRowToAttributeColumns, from property i on
RECURSIVE AttributeColumnsFrom(_, _, _)
AttributeColumnsFrom(entries, i, arr) ==
    IF i > Len(entries) THEN arr
    ELSE IF entries[i].name \in ignoreKeys
    THEN AttributeColumnsFrom(entries, i + 1, arr)
    ELSE AttributeColumnsFrom(entries, i + 1,
             Append(arr, Obj(<<Prop(entries[i].name, entries[i].value)>>)))

\* __parseRowToAttributeColumns(obj): for-in over a non-object visits nothing
parseRowToAttributeColumns(obj) ==
    IF IsObj(obj) THEN AttributeColumnsFrom(obj.obj, 1, <<>>) ELSE <<>>

\* __parseRowToUpdateOfAttributeColumns(obj)
parseRowToUpdateOfAttributeColumns(obj) ==
    <<Obj(<<Prop("PUT", Arr(parseRowToAttributeColumns(obj)))>>)>>

(***************************************************************************)
(* Write-request builders.                                                 *)
(***************************************************************************)
TableName == "t"
Condition(expectation) == [rowExistenceExpectation |-> expectation]
ReturnPrimarykey == [returnType |-> "Primarykey"]

\* __buildPutRowParams(row, condition)
buildPutRowParamsWith(row, condition) ==
    [tableName |-> TableName,
     condition |-> condition,
     primaryKey |-> parseRowToPrimaryKey(row, Undefined),
     attributeColumns |-> parseRowToAttributeColumns(row),
     returnContent |-> ReturnPrimarykey]
buildPutRowParams(row) == buildPutRowParamsWith(row, Condition("IGNORE"))

\* __buildInsertRowParams(row)
buildInsertRowParams(row) ==
    buildPutRowParamsWith(row, Condition("EXPECT_NOT_EXIST"))

\* __buildDeleteRowParams(row)
buildDeleteRowParams(row) ==
    [tableName |-> TableName,
     condition |-> Condition("IGNORE"),
     primaryKey |-> parseRowToPrimaryKey(row, Undefined)]

\* __buildUpdateRowParams(row)
buildUpdateRowParams(row) ==
    LET attributeColumns == parseRowToUpdateOfAttributeColumns(row)
    IN  [tableName |-> TableName,
         condition |-> Condition("EXPECT_EXIST"),
         primaryKey |-> parseRowToPrimaryKey(row, Undefined),
         updateOfAttributeColumns |-> attributeColumns,
         attributeColumns |-> attributeColumns,
         returnContent |-> ReturnPrimarykey]

(***************************************************************************)
(* Params / data -> row.                                                   *)
(***************************************************************************)
\* items.forEach((item) => Object.assign(row, item))
RECURSIVE AssignAll(_, _, _)
AssignAll(row, items, i) ==
    IF i > Len(items) THEN row
    ELSE AssignAll(ObjectAssign(row, items[i]), items, i + 1)

\* mutant: the attribute columns are not merged back
parseParamsToRowKeysOnly(params) ==
    IF "primaryKey" \in DOMAIN params
    THEN AssignAll(EmptyObject, params.primaryKey, 1)
    ELSE EmptyObject

\* __parseParamsToRow(params)
parseParamsToRow(params) ==
    LET keyed == IF "primaryKey" \in DOMAIN params
                 THEN AssignAll(EmptyObject, params.primaryKey, 1)
                 ELSE EmptyObject
    IN  IF "attributeColumns" \in DOMAIN params
        THEN AssignAll(keyed, params.attributeColumns, 1)
        ELSE keyed

(***************************************************************************)
(* Inputs of the mapper harness.                                           *)
(***************************************************************************)
FieldNames == {"id", "n", "a", "b"}
FieldValues == {Num(5), Str(<<"4", "x">>), Str(<<"x">>)}
Schemas ==
    { <<>>,
      <<[name |-> "id", type |-> "STRING"]>>,
      <<[name |-> "id", type |-> "STRING"], [name |-> "n", type |-> "LONG"]>>,
      <<[name |-> "n", type |-> "LONG"], [name |-> "id", type |-> "STRING"]>> }
Fallbacks == {Undefined, EmptyString, INF_MIN, INF_MAX}

\* objects of at most len properties, in every insertion order
RowsUpTo(len) ==
    {Obj(es) : es \in
        {s \in UNION {[1..k -> [name : FieldNames, value : FieldValues]] :
                         k \in 0..len} :
            \A i, j \in 1..Len(s) : i # j => s[i].name # s[j].name}}
MapperRows == RowsUpTo(MaxRowLen) \cup {Undefined}

NoOutput == [none |-> TRUE]

tableVars == <<primaryKeys, isSynced>>
opVars == <<pc, op, calls, served, promise, failed, startRow, rowsAcc, table>>
mapperVars == <<mIn, mOut>>
vars == <<primaryKeys, isSynced, pc, op, calls, served, promise, failed,
          startRow, rowsAcc, table, syncs, mIn, mOut>>

\* no operation in progress
NoOp == [name |-> "none"]
NoPromise == [state |-> "none"]
Quiet ==
    /\ pc = "idle"
    /\ op = NoOp
    /\ calls = <<>>
    /\ served = <<>>
    /\ promise = NoPromise
    /\ failed = <<>>
    /\ startRow = Undefined
    /\ rowsAcc = <<>>
    /\ table = 0
    /\ syncs = <<>>

InitMapper ==
    /\ primaryKeys \in Schemas
    /\ isSynced = FALSE
    /\ Quiet
    /\ mIn \in [row : MapperRows, defaultValue : Fallbacks]
    /\ mOut = NoOutput

\* rowToPrimaryKey(row, fallback)
ApplyRowToPrimaryKey ==
    /\ mOut = NoOutput
    /\ mOut' = [primaryKey |-> parseRowToPrimaryKey(mIn.row, mIn.defaultValue)]
    /\ UNCHANGED <<tableVars, opVars, syncs, mIn>>

\* paramsToRow(buildPut(row))
ApplyRoundTrip ==
    /\ mOut = NoOutput
    /\ IsObj(mIn.row)
    /\ mOut' = [params |-> buildPutRowParams(mIn.row),
                row |-> parseParamsToRow(buildPutRowParams(mIn.row))]
    /\ UNCHANGED <<tableVars, opVars, syncs, mIn>>

NextMapper == ApplyRowToPrimaryKey \/ ApplyRoundTrip

SpecMapper == InitMapper /\ [][NextMapper]_vars

(***************************************************************************)
(* The Table facade over the backend client.  An operation is called from  *)
(* the idle state; the backend settles each call it issues, and the        *)
(* handler the code attached runs with the response.                       *)
(***************************************************************************)
Pending == [state |-> "pending"]
Fulfilled(v) == [state |-> "fulfilled", value |-> v]
Rejected(r) == [state |-> "rejected", reason |-> r]

\* Promise.reject('参数无效')
InvalidArgument == [invalid |-> TRUE]
\* a failure of the backend client
BackendError(e) == [error |-> e]
Errors == {"e1", "e2"}

Call(method, params) == [method |-> method, params |-> params]

\* the row arguments of the single-row operations: absent, or an object
\* holding any of a string key, an integer-typed key and an attribute
FacadeProps == <<Prop("id", Str(<<"2">>)), Prop("n", Num(2)), Prop("a", Num(5))>>
FacadeRows ==
    {Obj(SelectSeq(FacadeProps, LAMBDA e : e.name \in S)) :
        S \in SUBSET {"id", "n", "a"}}
FalsyRows == {Undefined, Null}
RowArgs == FacadeRows \cup FalsyRows
FacadeSchemas == {pk \in Schemas : Len(pk) = 2}

\* return Promise.reject('参数无效'): no backend call is issued
RejectInvalid(o) ==
    /\ op' = o
    /\ promise' = Rejected(InvalidArgument)
    /\ calls' = <<>>
    /\ pc' = "done"
    /\ UNCHANGED <<tableVars, served, failed, startRow, rowsAcc, table, syncs,
                   mapperVars>>

\* this.__store.<method>(params) as the operation's one call so far
Issue(o, method, params) ==
    /\ op' = o
    /\ promise' = Pending
    /\ calls' = <<Call(method, params)>>
    /\ pc' = "wait"
    /\ UNCHANGED <<tableVars, served, failed, startRow, rowsAcc, table, syncs,
                   mapperVars>>

\* the backend answered the outstanding call and the handler settled the
\* operation's promise
Settle(response, p) ==
    /\ served' = Append(served, response)
    /\ promise' = p
    /\ pc' = "done"
    /\ UNCHANGED <<tableVars, op, calls, failed, startRow, rowsAcc, table,
                   syncs, mapperVars>>

\* put(row)
put(row) ==
    /\ pc = "idle"
    /\ IF ~Truthy(row) THEN RejectInvalid([name |-> "put", row |-> row])
       ELSE Issue([name |-> "put", row |-> row], "putRow", buildPutRowParams(row))

\* insert(row)
insert(row) ==
    /\ pc = "idle"
    /\ IF ~Truthy(row) THEN RejectInvalid([name |-> "insert", row |-> row])
       ELSE Issue([name |-> "insert", row |-> row], "putRow",
                  buildInsertRowParams(row))

\* delete(row)
delete(row) ==
    /\ pc = "idle"
    /\ IF ~Truthy(row) THEN RejectInvalid([name |-> "delete", row |-> row])
       ELSE Issue([name |-> "delete", row |-> row], "deleteRow",
                  buildDeleteRowParams(row))

\* update(row)
update(row) ==
    /\ pc = "idle"
    /\ IF ~Truthy(row) THEN RejectInvalid([name |-> "update", row |-> row])
       ELSE Issue([name |-> "update", row |-> row], "updateRow",
                  buildUpdateRowParams(row))

\* get(row, options): options.startColumn / endColumn of a call without options
get(row) ==
    /\ pc = "idle"
    /\ IF ~Truthy(row) THEN RejectInvalid([name |-> "get", row |-> row])
       ELSE Issue([name |-> "get", row |-> row], "getRow",
                  [tableName |-> TableName,
                   primaryKey |-> parseRowToPrimaryKey(row, EmptyString),
                   startColumn |-> Undefined,
                   endColumn |-> Undefined])

\* putRow(params).then(() => row), of put and insert
putRowThen ==
    /\ pc = "wait"
    /\ op.name \in {"put", "insert"}
    /\ Settle(EmptyObject, Fulfilled(op.row))

\* deleteRow(params).then(() => row)
deleteRowThen ==
    /\ pc = "wait"
    /\ op.name = "delete"
    /\ Settle(EmptyObject, Fulfilled(op.row))

\* update returns the promise of updateRow itself
updateRowSettled ==
    /\ pc = "wait"
    /\ op.name = "update"
    /\ Settle(EmptyObject, Fulfilled(EmptyObject))

(***************************************************************************)
(* Backend data -> row.                                                    *)
(***************************************************************************)
\* data[k] instanceof Array
IsArray(data, k) == IsObj(data) /\ HasOwn(data, k) /\ "arr" \in DOMAIN Get(data, k)

\* data.primaryKey.forEach((item) => { row[item.name] = item.value })
RECURSIVE PutKeysFrom(_, _, _)
PutKeysFrom(row, items, i) ==
    IF i > Len(items) THEN row
    ELSE PutKeysFrom(Put(row, items[i].name, items[i].value), items, i + 1)

\* data.attributes.forEach((item) => { row[item.columnName] = item.columnValue })
RECURSIVE PutColumnsFrom(_, _, _)
PutColumnsFrom(row, items, i) ==
    IF i > Len(items) THEN row
    ELSE PutColumnsFrom(Put(row, items[i].columnName, items[i].columnValue),
                        items, i + 1)

\* __parseDataToRow(data)
parseDataToRow(data) ==
    LET keyed == IF IsArray(data, "primaryKey")
                 THEN PutKeysFrom(EmptyObject, Get(data, "primaryKey").arr, 1)
                 ELSE EmptyObject
    IN  IF IsArray(data, "attributes")
        THEN PutColumnsFrom(keyed, Get(data, "attributes").arr, 1)
        ELSE keyed

\* rows.map((item) => this.__parseDataToRow(item))
mapDataToRows(items) == [i \in 1..Len(items) |-> parseDataToRow(items[i])]

(***************************************************************************)
(* The backend's data: row i of the table has i in every key component.    *)
(***************************************************************************)
DigitChars == <<"1", "2", "3", "4", "5", "6", "7", "8", "9">>
KeyValue(type, i) == IF type = "LONG" THEN LongOf(i) ELSE Str(<<DigitChars[i]>>)
TableKey(i) ==
    [j \in 1..Len(primaryKeys) |->
        [name |-> primaryKeys[j].name, value |-> KeyValue(primaryKeys[j].type, i)]]
DataItem(key, attributes) ==
    Obj(<<Prop("primaryKey", Arr(key)), Prop("attributes", Arr(attributes))>>)
TableItem(i) == DataItem(TableKey(i), <<[columnName |-> "a", columnValue |-> Num(i)]>>)
\* the same row under a column projection that matches no column
TableItemKeyOnly(i) == DataItem(TableKey(i), <<>>)

\* what getRow answers in data.row: the two not-found shapes, or a row
NotFoundEmpty == EmptyObject
NotFoundEntry == DataItem(<<>>, <<>>)
GetRowRows == {NotFoundEmpty, NotFoundEntry, TableItem(2)}

\* the handler of get: (data) => { let row = data.row ... }
getResult(row) == IF Len(row.obj) = 0 THEN Null ELSE parseDataToRow(row)

\* getRow(params).then(...)
getRowThen ==
    /\ pc = "wait"
    /\ op.name = "get"
    /\ \E row \in GetRowRows : Settle([row |-> row], Fulfilled(getResult(row)))

(***************************************************************************)
(* Batch translator.                                                       *)
(***************************************************************************)
\* key.toLocaleUpperCase(), on the labels the callers use
toLocaleUpperCase(key) ==
    CASE key \in {"put", "Put"} -> "PUT"
      [] key = "insert" -> "INSERT"
      [] key = "update" -> "UPDATE"
      [] key = "delete" -> "DELETE"
      [] key = "merge" -> "MERGE"
      [] OTHER -> key

\* item.type = type; delete item.tableName
batchItem(params, type) ==
    [k \in (DOMAIN params \ {"tableName"}) \cup {"type"} |->
        IF k = "type" THEN type ELSE params[k]]

\* mutant: an insert item keeps its own tag
batchItemsOfInsertTagged(op_, row) ==
    CASE op_ = "PUT" -> <<batchItem(buildPutRowParams(row), "PUT")>>
      [] op_ = "INSERT" -> <<batchItem(buildInsertRowParams(row), "INSERT")>>
      [] op_ = "UPDATE" -> <<batchItem(buildUpdateRowParams(row), "UPDATE")>>
      [] op_ = "DELETE" -> <<batchItem(buildDeleteRowParams(row), "DELETE")>>
      [] OTHER -> <<>>

\* the switch of __parseObjectToBatchWriteRows: what one row appends
batchItemsOf(op_, row) ==
    CASE op_ = "PUT" -> <<batchItem(buildPutRowParams(row), "PUT")>>
      [] op_ = "INSERT" -> <<batchItem(buildInsertRowParams(row), "PUT")>>
      [] op_ = "UPDATE" -> <<batchItem(buildUpdateRowParams(row), "UPDATE")>>
      [] op_ = "DELETE" -> <<batchItem(buildDeleteRowParams(row), "DELETE")>>
      [] OTHER -> <<>>

\* rows.forEach(...) of __parseObjectToBatchWriteRows, from row i on
RECURSIVE WriteRowsOfArray(_, _, _, _)
WriteRowsOfArray(op_, rows, i, writeRows) ==
    IF i > Len(rows) THEN writeRows
    ELSE WriteRowsOfArray(op_, rows, i + 1, writeRows \o batchItemsOf(op_, rows[i]))

\* the for-in of __parseObjectToBatchWriteRows, from property i on
RECURSIVE WriteRowsFrom(_, _, _)
WriteRowsFrom(entries, i, writeRows) ==
    IF i > Len(entries) THEN writeRows
    ELSE LET op_ == toLocaleUpperCase(entries[i].name)
             rows == IF Truthy(entries[i].value) THEN entries[i].value.arr ELSE <<>>
         IN  IF Len(rows) = 0 THEN WriteRowsFrom(entries, i + 1, writeRows)
             ELSE WriteRowsFrom(entries, i + 1,
                                WriteRowsOfArray(op_, rows, 1, writeRows))

\* __parseObjectToBatchWriteRows(obj): for-in over undefined visits nothing
parseObjectToBatchWriteRows(obj) ==
    IF IsObj(obj) THEN WriteRowsFrom(obj.obj, 1, <<>>) ELSE <<>>

\* rows.filter((item, i) => (arr[i] || {}).isOk), from item i on
RECURSIVE FilterOkFrom(_, _, _)
FilterOkFrom(rows, arr, i) ==
    IF i > Len(rows) THEN <<>>
    ELSE (IF i <= Len(arr) /\ arr[i].isOk THEN <<rows[i]>> ELSE <<>>)
             \o FilterOkFrom(rows, arr, i + 1)
\* mutant: the results are not looked at
filterOkAll(rows, arr) == rows
filterOk(rows, arr) == FilterOkFrom(rows, arr, 1)

\* the switch of __parseBatchWriteRowsToObject: the bucket an item goes to
bucketOf(type) ==
    CASE type = "PUT" -> "put"
      [] type = "INSERT" -> "insert"
      [] type = "UPDATE" -> "update"
      [] type = "DELETE" -> "delete"
      [] OTHER -> "none"

\* writeRows.forEach(...) of __parseBatchWriteRowsToObject, from item i on
RECURSIVE BucketsFrom(_, _, _)
BucketsFrom(writeRows, i, obj) ==
    IF i > Len(writeRows) THEN obj
    ELSE LET item == writeRows[i]
             row == parseParamsToRow(item)
             b == bucketOf(item.type)
         IN  BucketsFrom(writeRows, i + 1,
                 IF b = "none" THEN obj
                 ELSE [obj EXCEPT ![b] = Append(@, row)])

\* __parseBatchWriteRowsToObject(writeRows)
parseBatchWriteRowsToObject(writeRows) ==
    BucketsFrom(writeRows, 1,
                [put |-> <<>>, insert |-> <<>>, update |-> <<>>, delete |-> <<>>])

\* the rows of the batches, and the arrays and operation maps built of them
BatchRows ==
    {Obj(<<FacadeProps[1], FacadeProps[2], FacadeProps[3]>>),
     Obj(<<FacadeProps[1], FacadeProps[3]>>)}
ArraysOfLen(n) == {Arr(rs) : rs \in [1..n -> BatchRows]}
ArraysUpTo(n) == UNION {ArraysOfLen(k) : k \in 0..n}
ArrayArgs == ArraysUpTo(MaxBatchRows) \cup {Undefined}
Labels == {"put", "insert", "update", "delete", "Put", "merge"}
SizeOf(v) == IF Truthy(v) THEN Len(v.arr) ELSE 0
OpMaps ==
    {Undefined, EmptyObject}
    \cup {Obj(<<Prop(k, v)>>) : k \in Labels, v \in ArrayArgs}
    \cup {Obj(<<Prop(e[1], e[2]), Prop(e[3], e[4])>>) :
            e \in {x \in Labels \X ArraysUpTo(MaxBatchRows)
                          \X Labels \X ArraysUpTo(MaxBatchRows) :
                      x[1] # x[3] /\ SizeOf(x[2]) + SizeOf(x[4]) <= MaxBatchRows}}

\* !rows || !rows.length
EmptyArg(rows) == ~Truthy(rows) \/ Len(rows.arr) = 0

\* batchWrite(batchOpData): builds the items and issues batchWriteRow
batchWriteAs(o, batchOpData) ==
    Issue(o, "batchWriteRow",
          [tables |-> <<[tableName |-> TableName,
                         rows |-> parseObjectToBatchWriteRows(batchOpData)]>>])

\* batchWrite(batchOpData), called directly
batchWrite(batchOpData) ==
    /\ pc = "idle"
    /\ batchWriteAs([name |-> "batchWrite", data |-> batchOpData], batchOpData)

\* batchPut(rows)
batchPut(rows) ==
    /\ pc = "idle"
    /\ LET o == [name |-> "batchPut", data |-> Obj(<<Prop("put", rows)>>)]
       IN  IF EmptyArg(rows) THEN RejectInvalid(o) ELSE batchWriteAs(o, o.data)

\* batchInsert(rows)
batchInsert(rows) ==
    /\ pc = "idle"
    /\ LET o == [name |-> "batchInsert", data |-> Obj(<<Prop("insert", rows)>>)]
       IN  IF EmptyArg(rows) THEN RejectInvalid(o) ELSE batchWriteAs(o, o.data)

\* batchDelete(rows)
batchDelete(rows) ==
    /\ pc = "idle"
    /\ LET o == [name |-> "batchDelete", data |-> Obj(<<Prop("delete", rows)>>)]
       IN  IF EmptyArg(rows) THEN RejectInvalid(o) ELSE batchWriteAs(o, o.data)

\* batchUpdate(rows)
batchUpdate(rows) ==
    /\ pc = "idle"
    /\ LET o == [name |-> "batchUpdate", data |-> Obj(<<Prop("update", rows)>>)]
       IN  IF EmptyArg(rows) THEN RejectInvalid(o) ELSE batchWriteAs(o, o.data)

BatchWriteOps == {"batchWrite", "batchPut", "batchInsert", "batchDelete", "batchUpdate"}

\* the items of the outstanding batchWriteRow call
SentRows == calls[1].params.tables[1].rows

\* batchWriteRow(params).then((data) => ...): arr is data.tables[tableName],
\* one {isOk} per item sent
batchWriteRowThen(arr) ==
    /\ pc = "wait"
    /\ op.name \in BatchWriteOps
    /\ Len(arr) = Len(SentRows)
    /\ Settle([tables |-> arr],
              Fulfilled([buckets |->
                  parseBatchWriteRowsToObject(filterOk(SentRows, arr))]))

\* batchGet(rows, options)
batchGet(rows) ==
    /\ pc = "idle"
    /\ LET o == [name |-> "batchGet", rows |-> rows]
       IN  IF EmptyArg(rows) THEN RejectInvalid(o)
           ELSE Issue(o, "batchGetRow",
                    [tables |-> <<[tableName |-> TableName,
                        primaryKey |-> [i \in 1..Len(rows.arr) |->
                            parseRowToPrimaryKey(rows.arr[i], EmptyString)],
                        startColumn |-> Undefined,
                        endColumn |-> Undefined]>>])

\* an item of data.tables[0]
BatchGetItem(ok) ==
    Obj(<<Prop("isOk", [bool |-> ok]),
          Prop("primaryKey", Arr(IF ok THEN TableKey(2) ELSE <<>>)),
          Prop("attributes", Arr(<<>>))>>)

\* arr.filter((item) => item.isOk).map((item) => this.__parseDataToRow(item))
batchGetResult(arr) ==
    IF Len(arr) = 0 THEN arr
    ELSE mapDataToRows(SelectSeq(arr, LAMBDA item : Get(item, "isOk").bool))

\* batchGetRow(params).then(...): one item per key asked for
batchGetRowThen(oks) ==
    /\ pc = "wait"
    /\ op.name = "batchGet"
    /\ Len(oks) = Len(op.rows.arr)
    /\ LET arr == [i \in 1..Len(oks) |-> BatchGetItem(oks[i])]
       IN  Settle([tables |-> <<arr>>], Fulfilled(Arr(batchGetResult(arr))))

\* the per-item results the backend may give
OkLists(n) == [1..n -> [isOk : BOOLEAN]]
BoolLists(n) == [1..n -> BOOLEAN]

(***************************************************************************)
(* The backend's range scan over rows 1..table.                            *)
(***************************************************************************)
\* row i's key component against a bound: -1 below, 0 equal, 1 above
CompareComponent(i, bound) ==
    CASE "sent" \in DOMAIN bound -> IF bound.sent = "INF_MIN" THEN 1 ELSE -1
      [] OTHER ->
           LET b == parseInt(bound).num
           IN  IF i < b THEN -1 ELSE IF i > b THEN 1 ELSE 0

\* row i's key against a key parameter, component by component
RECURSIVE CompareKey(_, _, _)
CompareKey(i, key, j) ==
    IF j > Len(key) THEN 0
    ELSE LET c == CompareComponent(i, key[j].obj[1].value)
         IN  IF c # 0 THEN c ELSE CompareKey(i, key, j + 1)

\* the rows from the inclusive start up to the exclusive end, in key order
InRange(params) ==
    {i \in 1..table :
        /\ CompareKey(i, params.inclusiveStartPrimaryKey, 1) >= 0
        /\ CompareKey(i, params.exclusiveEndPrimaryKey, 1) < 0}
RECURSIVE Ascending(_)
Ascending(S) ==
    IF S = {} THEN <<>>
    ELSE LET m == CHOOSE x \in S : \A y \in S : x <= y
         IN  <<m>> \o Ascending(S \ {m})

\* a column range that matches no column returns the keys alone
ScanItem(params, i) ==
    IF params.startColumn = Str(<<"_">>) THEN TableItemKeyOnly(i) ELSE TableItem(i)

\* the response holding the first k rows in range: with a continuation key
\* when rows in range remain
ScanResponse(params, k) ==
    LET hits == Ascending(InRange(params))
        rows == [j \in 1..k |-> ScanItem(params, hits[j])]
    IN  IF k < Len(hits)
        THEN [rows |-> rows, next_start_primary_key |-> TableKey(hits[k + 1])]
        ELSE [rows |-> rows]

\* the backend returns at most params.limit rows, and may return fewer
ScanResponses(params) ==
    LET m == Cardinality(InRange(params))
        cap == IF params.limit < m THEN params.limit ELSE m
    IN  {ScanResponse(params, k) : k \in (IF m = 0 THEN {0} ELSE 1..cap)}

HasNext(data) == "next_start_primary_key" \in DOMAIN data
LastCall == calls[Len(calls)]

(***************************************************************************)
(* getRange.                                                               *)
(***************************************************************************)
RangeLimit == 5

\* the params of getRange(startRow, endRow, options)
getRangeParams(startRow_, endRow) ==
    [tableName |-> TableName,
     direction |-> "FORWARD",
     inclusiveStartPrimaryKey |-> parseRowToPrimaryKey(startRow_, INF_MIN),
     exclusiveEndPrimaryKey |-> parseRowToPrimaryKey(endRow, INF_MAX),
     startColumn |-> Undefined,
     endColumn |-> Undefined,
     limit |-> RangeLimit]

\* mutant: the page replaces what was collected
collectRowsLastPage(rows, dataRows) == dataRows

\* options.__rows = options.__rows.concat(data.rows)
collectRows(rows, dataRows) == rows \o dataRows

\* next_start_primary_key.forEach((item) => { startRow[item.name] = item.value })
advanceStartRow(startRow_, next) == PutKeysFrom(startRow_, next, 1)

\* the object endRow refers to, when the object startRow refers to holds s:
\* the caller may have passed one object for both
endRowOf(o, s) == IF o.same THEN s ELSE o.endRow

\* getRange(startRow, endRow): the first call; the backend holds n rows;
\* same tells that startRow and endRow are one object
getRange(startRow_, endRow, same, n) ==
    /\ pc = "idle"
    /\ same => endRow = startRow_
    /\ table' = n
    /\ op' = [name |-> "getRange", startRow |-> startRow_, endRow |-> endRow,
              same |-> same]
    /\ startRow' = startRow_
    /\ rowsAcc' = <<>>
    /\ calls' = <<Call("getRange", getRangeParams(startRow_, endRow))>>
    /\ promise' = Pending
    /\ pc' = "wait"
    /\ UNCHANGED <<tableVars, served, failed, syncs, mapperVars>>

\* getRange(params).then((data) => ...): collect, then recurse or finish
getRangeThen ==
    /\ pc = "wait"
    /\ op.name = "getRange"
    /\ \E data \in ScanResponses(LastCall.params) :
        /\ served' = Append(served, data)
        /\ rowsAcc' = collectRows(rowsAcc, data.rows)
        /\ IF HasNext(data)
           THEN /\ startRow' = advanceStartRow(startRow, data.next_start_primary_key)
                /\ calls' = Append(calls,
                       Call("getRange",
                           getRangeParams(startRow', endRowOf(op, startRow'))))
                /\ UNCHANGED <<promise, pc>>
           ELSE /\ promise' = Fulfilled(Arr(mapDataToRows(rowsAcc')))
                /\ pc' = "done"
                /\ UNCHANGED <<startRow, calls>>
    /\ UNCHANGED <<tableVars, op, failed, table, syncs, mapperVars>>

(***************************************************************************)
(* select.                                                                 *)
(***************************************************************************)
\* the defaults select assigns the caller's options over
SelectDefaults ==
    Obj(<<Prop("where", EmptyObject), Prop("limit", Num(10)), Prop("page", Num(1)),
          Prop("startColumn", Null), Prop("endColumn", Null)>>)

\* Object.assign({...defaults}, options): an undefined source is skipped
selectOptions(options) ==
    IF IsObj(options) THEN ObjectAssign(SelectDefaults, options) ELSE SelectDefaults

\* let page = options.page <= 0 ? 1 : options.page
selectPage(options) == IF Get(options, "page").num <= 0 THEN 1 ELSE Get(options, "page").num

\* mutant: the skip scan asks for one page, not for the offset
selectParamsNoOffset(options) ==
    LET isFirst == selectPage(options) = 1
    IN  [tableName |-> TableName,
         direction |-> "FORWARD",
         inclusiveStartPrimaryKey |-> parseRowToPrimaryKey(Get(options, "where"), INF_MIN),
         exclusiveEndPrimaryKey |-> parseRowToPrimaryKey(EmptyObject, INF_MAX),
         startColumn |-> IF isFirst THEN Get(options, "startColumn") ELSE Str(<<"_">>),
         endColumn |-> IF isFirst THEN Get(options, "endColumn") ELSE Str(<<"_", "_">>),
         limit |-> Get(options, "limit").num]

\* the params of select's first scan
selectParams(options) ==
    LET page == selectPage(options)
        isFirst == page = 1
        offset == (page - 1) * Get(options, "limit").num
    IN  [tableName |-> TableName,
         direction |-> "FORWARD",
         inclusiveStartPrimaryKey |-> parseRowToPrimaryKey(Get(options, "where"), INF_MIN),
         exclusiveEndPrimaryKey |-> parseRowToPrimaryKey(EmptyObject, INF_MAX),
         startColumn |-> IF isFirst THEN Get(options, "startColumn") ELSE Str(<<"_">>),
         endColumn |-> IF isFirst THEN Get(options, "endColumn") ELSE Str(<<"_", "_">>),
         limit |-> IF isFirst THEN Get(options, "limit").num ELSE offset]

\* the params of select's second scan, from the skip scan's response
selectSecondParams(params, options, data) ==
    [params EXCEPT
        !.startColumn = Get(options, "startColumn"),
        !.endColumn = Get(options, "endColumn"),
        !.limit = Get(options, "limit").num,
        !.inclusiveStartPrimaryKey =
            [i \in 1..Len(data.next_start_primary_key) |->
                Obj(<<Prop(data.next_start_primary_key[i].name,
                           data.next_start_primary_key[i].value)>>)]]

\* select(options): the first scan; the backend holds n rows
select(options, n) ==
    /\ pc = "idle"
    /\ table' = n
    /\ LET o == selectOptions(options)
       IN  /\ op' = [name |-> "select", given |-> options, options |-> o,
                     isFirst |-> (selectPage(o) = 1)]
           /\ calls' = <<Call("getRange", selectParams(o))>>
    /\ promise' = Pending
    /\ pc' = "wait"
    /\ UNCHANGED <<tableVars, served, failed, startRow, rowsAcc, syncs, mapperVars>>

\* the first getRange(params).then((data) => ...), and, when it returns
\* rows, the final .then((rows) => rows.map(...))
selectThen ==
    /\ pc = "wait"
    /\ op.name = "select"
    /\ Len(calls) = 1
    /\ \E data \in ScanResponses(LastCall.params) :
        /\ served' = Append(served, data)
        /\ IF op.isFirst
           THEN /\ promise' = Fulfilled(Arr(mapDataToRows(data.rows)))
                /\ pc' = "done"
                /\ UNCHANGED calls
           ELSE IF HasNext(data)
           THEN /\ calls' = Append(calls,
                       Call("getRange",
                            selectSecondParams(LastCall.params, op.options, data)))
                /\ UNCHANGED <<promise, pc>>
           ELSE /\ promise' = Fulfilled(Arr(mapDataToRows(<<>>)))
                /\ pc' = "done"
                /\ UNCHANGED calls
    /\ UNCHANGED <<tableVars, op, failed, startRow, rowsAcc, table, syncs, mapperVars>>

\* the second getRange(params).then((data) => (data.rows || [])), and the
\* final .then((rows) => rows.map(...))
selectSecondThen ==
    /\ pc = "wait"
    /\ op.name = "select"
    /\ Len(calls) = 2
    /\ \E data \in ScanResponses(LastCall.params) :
        Settle(data, Fulfilled(Arr(mapDataToRows(data.rows))))

\* the arguments of the scans
EndRows == {Undefined, Obj(<<Prop("id", Str(<<"4">>)), Prop("n", Num(4))>>)}
WhereRows == {EmptyObject, Obj(<<FacadeProps[1]>>), Obj(<<FacadeProps[1], FacadeProps[2]>>)}
SelectOptions ==
    {Undefined} \cup
    {Obj(w \o g \o l \o c) :
        w \in {<<>>} \cup {<<Prop("where", r)>> : r \in WhereRows},
        g \in {<<>>} \cup {<<Prop("page", Num(x))>> : x \in -1..MaxPage},
        l \in {<<>>} \cup {<<Prop("limit", Num(x))>> : x \in 1..MaxLimit},
        c \in {<<>>, <<Prop("startColumn", Str(<<"a">>)), Prop("endColumn", Str(<<"c">>))>>}}

(***************************************************************************)
(* sync: several calls may be in progress at once.                         *)
(***************************************************************************)
\* resolve(this)
This == [this |-> TableName]

\* what describeTable answers
DescribeResponse(pk) == [table_meta |-> [primary_key |-> pk]]

\* the arguments a promise passes to .then's callback (err, data): the
\* fulfilment value, and nothing else
thenArguments(value) == [err |-> value, data |-> Undefined]

\* sync(force)
sync(force) ==
    /\ pc \in {"idle", "sync"}
    /\ Len(syncs) < MaxSyncCalls
    /\ pc' = "sync"
    /\ LET after == \E i \in 1..Len(syncs) : syncs[i].describe = "fulfilled"
       IN  IF isSynced /\ ~force
           THEN syncs' = Append(syncs,
                    [force |-> force, issued |-> FALSE, describe |-> "none",
                     error |-> "", after |-> after, promise |-> Fulfilled(This)])
           ELSE syncs' = Append(syncs,
                    [force |-> force, issued |-> TRUE, describe |-> "pending",
                     error |-> "", after |-> after, promise |-> Pending])
    /\ UNCHANGED <<tableVars, op, calls, served, promise, failed, startRow,
                   rowsAcc, table, mapperVars>>

\* describeTable(...).then((err, data) => { ... }) of the i-th sync call:
\* reject(err) when err is truthy; reading data.table_meta of an undefined
\* data throws, and the statements after it do not run
describeTableThen(i, value) ==
    /\ pc = "sync"
    /\ i \in 1..Len(syncs)
    /\ syncs[i].describe = "pending"
    /\ LET args == thenArguments(value)
           rejected == IF Truthy(args.err) THEN Rejected(args.err) ELSE syncs[i].promise
           throws == IsUndefined(args.data)
       IN  /\ syncs' = [syncs EXCEPT ![i].describe = "fulfilled",
                                     ![i].promise =
                                         IF ~throws /\ rejected.state = "pending"
                                         THEN Fulfilled(This) ELSE rejected]
           /\ primaryKeys' = IF throws THEN primaryKeys
                             ELSE args.data.table_meta.primary_key
           /\ isSynced' = IF throws THEN isSynced ELSE TRUE
    /\ UNCHANGED <<opVars, mapperVars>>

\* describeTable fails with e: the executor attached no rejection handler,
\* so nothing settles the promise sync returned
describeTableFail(i, e) ==
    /\ pc = "sync"
    /\ i \in 1..Len(syncs)
    /\ syncs[i].describe = "pending"
    /\ syncs' = [syncs EXCEPT ![i].describe = "rejected", ![i].error = e]
    /\ UNCHANGED <<tableVars, opVars, mapperVars>>

\* the backend fails the outstanding call with e: the operations attach
\* only fulfilment handlers, so the rejection passes to the returned promise
BackendFail(e) ==
    /\ pc = "wait"
    /\ promise' = Rejected(BackendError(e))
    /\ failed' = Append(failed, e)
    /\ pc' = "done"
    /\ UNCHANGED <<tableVars, op, calls, served, startRow, rowsAcc, table,
                   syncs, mapperVars>>

\* the caller has seen the outcome; the next operation starts afresh
Return ==
    /\ pc \in {"done", "sync"}
    /\ pc' = "idle"
    /\ op' = NoOp
    /\ calls' = <<>>
    /\ served' = <<>>
    /\ promise' = NoPromise
    /\ failed' = <<>>
    /\ startRow' = Undefined
    /\ rowsAcc' = <<>>
    /\ table' = 0
    /\ syncs' = <<>>
    /\ UNCHANGED <<tableVars, mapperVars>>

Init ==
    /\ primaryKeys \in FacadeSchemas
    /\ isSynced = FALSE
    /\ Quiet
    /\ mIn = NoOutput
    /\ mOut = NoOutput

Next ==
    \/ \E row \in RowArgs : put(row)
    \/ \E row \in RowArgs : insert(row)
    \/ \E row \in RowArgs : delete(row)
    \/ \E row \in RowArgs : update(row)
    \/ \E row \in RowArgs : get(row)
    \/ putRowThen
    \/ deleteRowThen
    \/ updateRowSettled
    \/ getRowThen
    \/ \E data \in OpMaps : batchWrite(data)
    \/ \E rows \in ArrayArgs : batchPut(rows)
    \/ \E rows \in ArrayArgs : batchInsert(rows)
    \/ \E rows \in ArrayArgs : batchDelete(rows)
    \/ \E rows \in ArrayArgs : batchUpdate(rows)
    \/ \E rows \in ArrayArgs : batchGet(rows)
    \/ \E arr \in UNION {OkLists(n) : n \in 0..MaxBatchRows} : batchWriteRowThen(arr)
    \/ \E oks \in UNION {BoolLists(n) : n \in 1..MaxBatchRows} : batchGetRowThen(oks)
    \/ \E r \in FacadeRows, same \in BOOLEAN :
           \E e \in (IF same THEN {r} ELSE EndRows), n \in 0..MaxTableRows :
               getRange(r, e, same, n)
    \/ getRangeThen
    \/ \E o \in SelectOptions, n \in 0..MaxTableRows : select(o, n)
    \/ selectThen
    \/ selectSecondThen
    \/ \E force \in BOOLEAN : sync(force)
    \/ \E i \in 1..MaxSyncCalls, pk \in FacadeSchemas :
           describeTableThen(i, DescribeResponse(pk))
    \/ \E i \in 1..MaxSyncCalls, e \in Errors : describeTableFail(i, e)
    \/ \E e \in Errors : BackendFail(e)
    \/ Return

Spec == Init /\ [][Next]_vars

\* the row holds a value for every primary-key descriptor
Complete(row) == \A i \in 1..Len(primaryKeys) : HasOwn(row, primaryKeys[i].name)

(***************************************************************************)
(* Properties of the facade (under Spec).                                  *)
(***************************************************************************)
\* the rows of the pages served, concatenated in the order served
RECURSIVE PagesFrom(_, _)
PagesFrom(pages, i) ==
    IF i > Len(pages) THEN <<>> ELSE pages[i].rows \o PagesFrom(pages, i + 1)

\* the rows of the table between the keys the caller asked for, as rows
RowsAskedFor ==
    LET hits == Ascending(InRange(getRangeParams(op.startRow, op.endRow)))
    IN  [j \in 1..Len(hits) |-> parseDataToRow(TableItem(hits[j]))]

\* C1: getRange resolves with the rows of all the pages served, in the
\* order served, each row once (and, when startRow and endRow are two
\* objects, each row of the range asked for); every response but the last
\* carried a continuation key, and no scan follows a response without one.
C1_GetRangeAllPages ==
    op.name = "getRange" =>
        /\ \A i \in 1..Len(served) :
              ~HasNext(served[i]) => (i = Len(served) /\ Len(calls) = i /\ pc = "done")
        /\ promise.state = "fulfilled" =>
              /\ Len(served) >= 1
              /\ Len(calls) = Len(served)
              /\ ~HasNext(served[Len(served)])
              /\ promise.value = Arr(mapDataToRows(PagesFrom(served, 1)))
              /\ (~op.same => promise.value.arr = RowsAskedFor)
              /\ \A i, j \in 1..Len(promise.value.arr) :
                    i # j => promise.value.arr[i] # promise.value.arr[j]

\* a range of five rows came back in three pages
C1_Witness ==
    /\ op.name = "getRange"
    /\ promise.state = "fulfilled"
    /\ Len(served) = 3
    /\ Len(served[1].rows) = 2
    /\ Len(promise.value.arr) = 5

\* a continuation key as a key parameter: one {name: value} per component
AsKeyParam(next) == [j \in 1..Len(next) |-> Obj(<<Prop(next[j].name, next[j].value)>>)]

\* the scans of a getRange follow one another: at most one is outstanding,
\* and scan i+1 was issued on response i's continuation key, which is its
\* inclusive start key and is what the caller's startRow now holds
ScansFollowContinuation ==
    /\ Len(calls) - Len(served) \in {0, 1}
    /\ \A i \in 1..(Len(calls) - 1) :
          /\ i <= Len(served)
          /\ HasNext(served[i])
          /\ calls[i + 1].params.inclusiveStartPrimaryKey
                 = AsKeyParam(served[i].next_start_primary_key)
    /\ (Len(calls) > 1 /\ Len(calls) > Len(served)) =>
          \A k \in 1..Len(primaryKeys) :
              LET item == served[Len(served)].next_start_primary_key[k]
              IN  Get(startRow, item.name) = item.value

\* C11: the scans of getRange are sequential and continuation-driven: at
\* most one getRange call is outstanding, call i+1 is issued only after
\* response i arrived with a continuation key, its inclusive start key is
\* that key (written into the caller's startRow), and its exclusive end
\* key is the one of the first call.
C11_GetRangeSequential ==
    op.name = "getRange" =>
        /\ ScansFollowContinuation
        /\ \A i \in 2..Len(calls) :
              calls[i].params.exclusiveEndPrimaryKey
                  = calls[1].params.exclusiveEndPrimaryKey

\* the same when startRow and endRow are two objects
GetRangeSequentialTwoObjects == (op.name = "getRange" /\ ~op.same) => C11_GetRangeSequential

\* with one object for both, the scans still follow the continuation keys
GetRangeFollowsContinuation == op.name = "getRange" => ScansFollowContinuation

\* one object passed as startRow and endRow: a second scan was issued
GetRangeSameObjectContinued ==
    op.name = "getRange" /\ op.same /\ Len(calls) = 2 /\ pc = "done"

\* what the caller asked of select, with select's defaults
Asked(k) == IF IsObj(op.given) /\ HasOwn(op.given, k)
            THEN Get(op.given, k) ELSE Get(SelectDefaults, k)

\* C2: select issues one scan with limit L and the caller's columns when
\* page <= 1 and resolves with its rows; when page > 1 it issues a skip scan
\* with limit (page-1)*L and then, exactly when that response carries a
\* continuation key, one second scan with limit L and the caller's columns
\* from that key; without a continuation key it resolves with no rows.
C2_SelectScans ==
    op.name = "select" =>
        LET page == Asked("page").num
            L == Asked("limit").num
            first == calls[1].params
        IN  /\ Len(calls) \in {1, 2}
            /\ \A i \in 1..Len(calls) : calls[i].method = "getRange"
            /\ page <= 1 =>
                  /\ Len(calls) = 1
                  /\ first.limit = L
                  /\ first.startColumn = Asked("startColumn")
                  /\ first.endColumn = Asked("endColumn")
                  /\ Len(served) = 1 =>
                        promise = Fulfilled(Arr(mapDataToRows(served[1].rows)))
            /\ page > 1 =>
                  /\ first.limit = (page - 1) * L
                  /\ Len(calls) = 2 <=> (Len(served) >= 1 /\ HasNext(served[1]))
                  /\ Len(calls) = 2 =>
                        /\ calls[2].params.limit = L
                        /\ calls[2].params.startColumn = Asked("startColumn")
                        /\ calls[2].params.endColumn = Asked("endColumn")
                        /\ calls[2].params.inclusiveStartPrimaryKey =
                              [i \in 1..Len(served[1].next_start_primary_key) |->
                                  Obj(<<Prop(served[1].next_start_primary_key[i].name,
                                             served[1].next_start_primary_key[i].value)>>)]
                  /\ (Len(served) = 1 /\ ~HasNext(served[1])) =>
                        promise = Fulfilled(Arr(<<>>))
                  /\ Len(served) = 2 =>
                        promise = Fulfilled(Arr(mapDataToRows(served[2].rows)))

\* page 3 of size 2: a skip scan with limit 4, then the page's two rows
C2_Witness ==
    /\ op.name = "select"
    /\ Asked("page") = Num(3)
    /\ Asked("limit") = Num(2)
    /\ Len(calls) = 2
    /\ calls[1].params.limit = 4
    /\ Len(served) = 2
    /\ Len(served[1].rows) = 4
    /\ promise.state = "fulfilled"
    /\ Len(promise.value.arr) = 2

\* the operation kind a label names, case-insensitively
KindOf(label) ==
    CASE label \in {"put", "Put"} -> "put"
      [] label = "insert" -> "insert"
      [] label = "update" -> "update"
      [] label = "delete" -> "delete"
      [] OTHER -> "none"
Kinds == {"put", "insert", "update", "delete"}

\* the rows the caller supplied under the recognised labels, each with the
\* kind it was supplied under, in map order then array order
RECURSIVE SuppliedFrom(_, _)
SuppliedFrom(entries, i) ==
    IF i > Len(entries) THEN <<>>
    ELSE LET kind == KindOf(entries[i].name)
             rows == IF Truthy(entries[i].value) THEN entries[i].value.arr ELSE <<>>
         IN  (IF kind = "none" THEN <<>>
              ELSE [j \in 1..Len(rows) |-> [kind |-> kind, row |-> rows[j]]])
                 \o SuppliedFrom(entries, i + 1)
Supplied(data) == IF IsObj(data) THEN SuppliedFrom(data.obj, 1) ELSE <<>>

\* C3: when the backend marks exactly the positions ok of a batch of N
\* items as successful, batchWrite resolves with a bucket map holding one
\* row per successful position, each in the bucket named after the kind
\* (put, insert, update, delete) the caller supplied it under.
C3_BatchBuckets ==
    (op.name \in BatchWriteOps /\ Len(served) = 1) =>
        LET arr == served[1].tables
            sup == Supplied(op.data)
            ok == {i \in 1..Len(arr) : arr[i].isOk}
        IN  /\ Len(sup) = Len(arr)
            /\ promise.state = "fulfilled"
            /\ \A kind \in Kinds :
                  Len(promise.value.buckets[kind]) =
                      Cardinality({i \in ok : sup[i].kind = kind})

\* the part of C3 that does not depend on the bucket names: the buckets
\* hold as many rows as positions succeeded
BatchTotalIsSuccesses ==
    (op.name \in BatchWriteOps /\ Len(served) = 1) =>
        LET arr == served[1].tables
            b == promise.value.buckets
        IN  Len(b.put) + Len(b.insert) + Len(b.update) + Len(b.delete)
                = Cardinality({i \in 1..Len(arr) : arr[i].isOk})

\* the operations other than sync reject with the backend's error, and
\* issue nothing after it
OperationsPropagate ==
    failed # <<>> =>
        /\ Len(failed) = 1
        /\ promise = Rejected(BackendError(failed[1]))
        /\ pc = "done"

\* C4: a backend call failing with e rejects the operation's promise with
\* that same e and no further backend call is issued, for put, insert,
\* update, delete, get, batchGet, batchWrite, getRange, select and sync.
C4_BackendErrorPropagates ==
    /\ OperationsPropagate
    /\ \A i \in 1..Len(syncs) :
          syncs[i].describe = "rejected" =>
              syncs[i].promise = Rejected(BackendError(syncs[i].error))

\* the argument the call was made with fails validation
SingleRowOps == {"put", "insert", "update", "delete", "get"}
BatchArrayOps == {"batchPut", "batchInsert", "batchUpdate", "batchDelete"}
InvalidCall ==
    \/ op.name \in SingleRowOps /\ ~Truthy(op.row)
    \/ op.name \in BatchArrayOps /\ EmptyArg(op.data.obj[1].value)
    \/ op.name = "batchGet" /\ EmptyArg(op.rows)
    \/ op.name = "batchWrite" /\ (~Truthy(op.data) \/ Len(op.data.obj) = 0)

\* C5: a call with an absent row, or with an absent or empty batch or
\* array argument, fails with the invalid-argument error and issues no
\* backend call.
C5_ValidationBeforeBackend ==
    InvalidCall => (promise = Rejected(InvalidArgument) /\ calls = <<>>)

\* C5 without batchWrite, which holds
ValidationBeforeBackendButBatchWrite ==
    (InvalidCall /\ op.name # "batchWrite") =>
        (promise = Rejected(InvalidArgument) /\ calls = <<>>)

\* C6: a write whose row lacks a value for a primary-key descriptor fails
\* with a validation error and no backend call is issued for it.
C6_IncompleteKeyRejected ==
    /\ (op.name \in {"put", "insert", "update", "delete"}
            /\ Truthy(op.row) /\ ~Complete(op.row)) =>
          (promise.state = "rejected" /\ calls = <<>>)
    /\ (op.name \in BatchWriteOps
            /\ \E i \in 1..Len(Supplied(op.data)) : ~Complete(Supplied(op.data)[i].row)) =>
          (promise.state = "rejected" /\ calls = <<>>)

\* C7, for calls that do not overlap: a non-forced sync made after an
\* earlier sync's describeTable was answered issues no describeTable and
\* resolves with the table.
C7_SyncOnce ==
    \A j \in 1..Len(syncs) :
        (~syncs[j].force /\ syncs[j].after) =>
            (~syncs[j].issued /\ syncs[j].promise = Fulfilled(This))

\* C7, for calls that overlap as well: the non-forced sync calls issue at
\* most one describeTable between them
SyncOnceOverlapping ==
    Cardinality({j \in 1..Len(syncs) : ~syncs[j].force /\ syncs[j].issued}) <= 1

\* C8: get resolves with null for a key that does not exist, for both
\* not-found responses: an empty row object, and a row with an empty
\* primary-key array and empty attributes.
C8_GetAbsentIsNull ==
    (op.name = "get" /\ Len(served) = 1
        /\ served[1].row \in {NotFoundEmpty, NotFoundEntry}) =>
        promise = Fulfilled(Null)

\* C8 for the empty row object alone, which holds
GetEmptyRowIsNull ==
    (op.name = "get" /\ Len(served) = 1 /\ served[1].row = NotFoundEmpty) =>
        promise = Fulfilled(Null)

(***************************************************************************)
(* Properties of the mapper functions (under SpecMapper).                  *)
(***************************************************************************)
\* the row as __parseRowToPrimaryKey reads it (obj = obj || {})
RowRead == IF Truthy(mIn.row) THEN mIn.row ELSE EmptyObject

\* the names of the integer-typed key descriptors
LongKeys == {primaryKeys[i].name : i \in {j \in 1..Len(primaryKeys) :
                                             primaryKeys[j].type = "LONG"}}

\* two objects hold the same properties with the same values, in any order
SameMapping(a, b) ==
    /\ Len(a.obj) = Len(b.obj)
    /\ KeySet(a) = KeySet(b)
    /\ \A k \in KeySet(a) : Get(a, k) = Get(b, k)

C10_RowToPrimaryKey ==
    "primaryKey" \in DOMAIN mOut =>
        LET dv == mIn.defaultValue
            out == mOut.primaryKey
            held == SelectSeq(primaryKeys,
                        LAMBDA d : HasOwn(RowRead, d.name) \/ ~IsUndefined(dv))
        IN  /\ Len(out) = Len(held)
            /\ \A i \in 1..Len(out) :
                  /\ Keys(out[i]) = <<held[i].name>>
                  /\ (~HasOwn(RowRead, held[i].name) =>
                         out[i].obj[1].value = dv)
            /\ (~IsUndefined(dv) => Len(out) = Len(primaryKeys))

\* a two-key schema, a row holding only the second key, the empty-string
\* fallback of get: the first entry is the fallback, the second the row's
C10_Witness ==
    /\ "primaryKey" \in DOMAIN mOut
    /\ Len(primaryKeys) = 2
    /\ mIn.defaultValue = EmptyString
    /\ IsObj(mIn.row)
    /\ ~HasOwn(mIn.row, primaryKeys[1].name)
    /\ HasOwn(mIn.row, primaryKeys[2].name)
    /\ Len(mOut.primaryKey) = 2
    /\ mOut.primaryKey[1].obj[1].value = EmptyString

(***************************************************************************)
(* Properties of the batch translator (under Spec).                        *)
(***************************************************************************)
\* the positions of the batch that succeeded and whose item went to bucket
\* b, in the order sent
Landed(b) ==
    SelectSeq([i \in 1..Len(SentRows) |-> i],
              LAMBDA i : served[1].tables[i].isOk /\ bucketOf(SentRows[i].type) = b)

\* the primary-key fields of a row
KeyFieldsOf(row) == Obj(SelectSeq(row.obj, LAMBDA e : e.name \in ignoreKeys))

\* the flat row the claim expects back for a row supplied under a kind
SuppliedAs(kind, row) == IF kind = "delete" THEN KeyFieldsOf(row) ELSE row

\* the same properties, an integer-typed key holding the Store.Long of the
\* value supplied
SameUpToLong(out, in) ==
    /\ Len(out.obj) = Len(in.obj)
    /\ KeySet(out) = KeySet(in)
    /\ \A k \in KeySet(in) :
          Get(out, k) = IF k \in LongKeys THEN fromNumber(parseInt(Get(in, k)))
                        ELSE Get(in, k)

\* every bucket holds, in the order sent, one row per successful item, and
\* Same(returned, expected, kind) relates each to the row supplied
BucketsInvert(Same(_, _, _)) ==
    LET sup == Supplied(op.data)
    IN  \A b \in Kinds :
          LET idx == Landed(b)
              got == promise.value.buckets[b]
          IN  /\ Len(got) = Len(idx)
              /\ \A j \in 1..Len(idx) :
                    Same(got[j], SuppliedAs(sup[idx[j]].kind, sup[idx[j]].row),
                         sup[idx[j]].kind)

\* C12: for every successful item of a batchWrite, of any kind, the row
\* returned is the flat row the caller supplied: its primary-key fields
\* and, for put, insert and update, its attribute fields, with the same
\* names and values; rows keep their input order within each bucket.
C12_BatchRowsInverted ==
    (op.name \in BatchWriteOps /\ Len(served) = 1) =>
        BucketsInvert(LAMBDA out, in, kind : SameMapping(out, in))

\* the same, allowing an integer-typed key to come back as Store.Long
BatchRowsInvertedUpToLong ==
    (op.name \in BatchWriteOps /\ Len(served) = 1) =>
        BucketsInvert(LAMBDA out, in, kind : SameUpToLong(out, in))

\* what the code returns: the supplied row with integer-typed keys as
\* Store.Long for put, insert and delete; for update the key fields and
\* one field PUT holding the list of attribute columns
BatchRowsAsReturned ==
    (op.name \in BatchWriteOps /\ Len(served) = 1) =>
        BucketsInvert(LAMBDA out, in, kind :
            IF kind = "update"
            THEN /\ SameUpToLong(KeyFieldsOf(out), KeyFieldsOf(in))
                 /\ KeySet(out) = KeySet(KeyFieldsOf(in)) \cup {"PUT"}
                 /\ Get(out, "PUT") = Arr(parseRowToAttributeColumns(in))
            ELSE SameUpToLong(out, in))

\* an update of a row without integer-typed key came back
BatchUpdateReturned ==
    /\ op.name \in BatchWriteOps
    /\ Len(served) = 1
    /\ Len(promise.value.buckets.update) = 1
    /\ ~HasOwn(promise.value.buckets.update[1], "n")

\* the tag the claim gives an item of a kind
TagOf(kind) ==
    CASE kind \in {"put", "insert"} -> "PUT"
      [] kind = "update" -> "UPDATE"
      [] kind = "delete" -> "DELETE"

\* the existence expectation that tells the builder an item was made by
ExpectationOf(kind) ==
    CASE kind \in {"put", "delete"} -> "IGNORE"
      [] kind = "insert" -> "EXPECT_NOT_EXIST"
      [] kind = "update" -> "EXPECT_EXIST"

\* C13: the list sent to the backend holds one item per row of every
\* non-empty array under a recognised label (case-insensitive), in map
\* order then array order, each built from its row, tagged PUT for put and
\* insert, UPDATE for update, DELETE for delete, without tableName; result
\* i is applied to item i of that list: the rows returned are those of the
\* items at the successful positions, in the order sent.
C13_BatchItemsPositional ==
    (op.name \in BatchWriteOps /\ Len(calls) = 1) =>
        LET sup == Supplied(op.data)
        IN  /\ Len(SentRows) = Len(sup)
            /\ \A i \in 1..Len(sup) :
                  /\ SentRows[i].type = TagOf(sup[i].kind)
                  /\ "tableName" \notin DOMAIN SentRows[i]
                  /\ SentRows[i].primaryKey = parseRowToPrimaryKey(sup[i].row, Undefined)
                  /\ SentRows[i].condition = Condition(ExpectationOf(sup[i].kind))
                  /\ sup[i].kind # "delete" =>
                        "attributeColumns" \in DOMAIN SentRows[i]
            /\ Len(served) = 1 =>
                  /\ Len(served[1].tables) = Len(SentRows)
                  /\ promise.state = "fulfilled"
                  /\ \A b \in Kinds :
                        promise.value.buckets[b] =
                            [j \in 1..Len(Landed(b)) |->
                                parseParamsToRow(SentRows[Landed(b)[j]])]

\* two rows under the labels Put and insert were sent as two PUT items in
\* that order; the first failed and the second came back
C13_Witness ==
    /\ op.name = "batchWrite"
    /\ IsObj(op.data)
    /\ Len(op.data.obj) = 2
    /\ op.data.obj[1].name = "Put"
    /\ op.data.obj[2].name = "insert"
    /\ Len(calls) = 1
    /\ Len(SentRows) = 2
    /\ SentRows[1].primaryKey # SentRows[2].primaryKey
    /\ Len(served) = 1
    /\ served[1].tables = <<[isOk |-> FALSE], [isOk |-> TRUE]>>
    /\ promise.state = "fulfilled"
    /\ promise.value.buckets.put = <<parseParamsToRow(SentRows[2])>>


====
